---------------------------- MODULE Spec2Model ----------------------------
(***************************************************************************)
(* URLSpider: the URL normalizer (utils.py), the filter (filter.py), the   *)
(* extractor's cache (extractor.py) and the crawler (crawler.py).          *)
(*                                                                         *)
(* Strings.  A Python str is modelled as a sequence of tokens; a token is  *)
(* a run of characters that the code never looks inside: a punctuation     *)
(* character, or a run of letters, or a run of digits.  "https://a.com/x"  *)
(* is <<"https", ":", "/", "/", "a", ".", "com", "/", "x">>.  Two letter   *)
(* tokens may be adjacent ("not","example" is the host label notexample),  *)
(* so that a suffix test can tell a string suffix from a label suffix.     *)
(* The empty sequence is both "" and None: the code tests either with      *)
(* `not x`.                                                                *)
(***************************************************************************)
EXTENDS Integers, Sequences, FiniteSets, Bags, TLC

(***************************************************************************)
(* The alphabet.                                                           *)
(***************************************************************************)
LowerAlpha ==
    {"http", "https", "ftp", "javascript", "mailto", "tel", "data", "blob",
     "about", "example", "com", "api", "not", "a", "b", "x", "i", "s",
     "html", "js", "ico", "favicon", "void", "blank", "true", "co", "uk"}

\* Tokens that hold an upper-case letter, with their str.lower().
UpperAlpha == {"HTTPS", "JavaScript", "MAILTO", "Example"}

AlphaTok == LowerAlpha \cup UpperAlpha

DigitTok == {"0", "80", "443", "8080"}

Whitespace == {" "}

PunctTok == {":", "/", ".", "#", "?", "(", ")", "@", "\"", "'"} \cup Whitespace

Token == AlphaTok \cup DigitTok \cup PunctTok

\* str.lower() of one token.
LowerTok(t) ==
    CASE t = "HTTPS" -> "https"
      [] t = "JavaScript" -> "javascript"
      [] t = "MAILTO" -> "mailto"
      [] t = "Example" -> "example"
      [] OTHER -> t

\* len() of one token, in characters.
TokLen(t) ==
    CASE t \in {"javascript", "JavaScript"} -> 10
      [] t \in {"example", "Example", "favicon"} -> 7
      [] t \in {"mailto", "MAILTO"} -> 6
      [] t \in {"https", "HTTPS", "about", "blank"} -> 5
      [] t \in {"http", "data", "blob", "html", "void", "true", "8080"} -> 4
      [] t \in {"ftp", "tel", "com", "api", "not", "ico", "443"} -> 3
      [] t \in {"js", "co", "uk", "80"} -> 2
      [] OTHER -> 1

(***************************************************************************)
(* str operations.                                                         *)
(***************************************************************************)
Lower(s) == [k \in 1..Len(s) |-> LowerTok(s[k])]

RECURSIVE CharLen(_)
CharLen(s) == IF s = <<>> THEN 0 ELSE TokLen(Head(s)) + CharLen(Tail(s))

StartsWith(s, p) == Len(s) >= Len(p) /\ SubSeq(s, 1, Len(p)) = p

EndsWith(s, p) == Len(s) >= Len(p) /\ SubSeq(s, Len(s) - Len(p) + 1, Len(s)) = p

\* `p in s`
Contains(s, p) ==
    \E k \in 1..(Len(s) - Len(p) + 1) : SubSeq(s, k, k + Len(p) - 1) = p

\* s.find(c, from) for c in T: the least index >= from holding a token of T,
\* or 0 (indices are 1-based here, so 0 stands for Python's -1).
Find(s, T, from) ==
    LET hits == {k \in from..Len(s) : s[k] \in T}
    IN  IF hits = {} THEN 0 ELSE CHOOSE k \in hits : \A m \in hits : k <= m

DropFrom(s, k) == SubSeq(s, k, Len(s))

RECURSIVE LStrip(_, _)
LStrip(s, T) == IF s # <<>> /\ Head(s) \in T THEN LStrip(Tail(s), T) ELSE s

RECURSIVE RStrip(_, _)
RStrip(s, T) ==
    IF s # <<>> /\ s[Len(s)] \in T THEN RStrip(SubSeq(s, 1, Len(s) - 1), T) ELSE s

\* s.strip(chars)
Strip(s, T) == RStrip(LStrip(s, T), T)

\* s.split(sep): a sequence of strings, never empty.
RECURSIVE Split(_, _)
Split(s, sep) ==
    LET k == Find(s, {sep}, 1)
    IN  IF k = 0 THEN <<s>>
        ELSE <<SubSeq(s, 1, k - 1)>> \o Split(DropFrom(s, k + 1), sep)

\* sep.join(parts)
RECURSIVE Join(_, _)
Join(parts, sep) ==
    IF parts = <<>> THEN <<>>
    ELSE IF Len(parts) = 1 THEN parts[1]
    ELSE parts[1] \o <<sep>> \o Join(Tail(parts), sep)

\* s[:n] of a list
Take(s, n) == SubSeq(s, 1, IF Len(s) < n THEN Len(s) ELSE n)

\* The orders in which a Python set can be iterated.
Orders(S) ==
    {f \in [1..Cardinality(S) -> S] : \A a, b \in 1..Cardinality(S) : f[a] = f[b] => a = b}

Range(f) == {f[k] : k \in DOMAIN f}

(***************************************************************************)
(* urllib.parse, as utils.py and filter.py use it.  The alphabet has no    *)
(* ';' (params), no '[' or ']' (IPv6 literals) and no tab, CR or LF, so    *)
(* the branches of urlsplit for those are left out.  A value computed once *)
(* and used several times is handed on as a parameter.                     *)
(***************************************************************************)
SchemeChars == AlphaTok \cup DigitTok \cup {"."}

UsesNetloc == {<<>>, <<"ftp">>, <<"http">>, <<"https">>}

UsesRelative == {<<>>, <<"ftp">>, <<"http">>, <<"https">>}

\* s.split(t, 1)[0]
Before(s, t) ==
    LET k == Find(s, {t}, 1) IN IF k = 0 THEN s ELSE SubSeq(s, 1, k - 1)

\* s.split(t, 1)[1], or '' without t
After(s, t) ==
    LET k == Find(s, {t}, 1) IN IF k = 0 THEN <<>> ELSE DropFrom(s, k + 1)

\* urlsplit: the index of the ':' that ends the scheme, or 0 without a scheme
SchemeEnd(url) ==
    LET c == Find(url, {":"}, 1)
    IN  IF c > 1 /\ url[1] \in AlphaTok /\ \A k \in 1..(c - 1) : url[k] \in SchemeChars
        THEN c ELSE 0

\* _splitnetloc(url, 2): the index of the end of the netloc
NetlocEnd(r) ==
    LET d == Find(r, {"/", "?", "#"}, 3) IN IF d = 0 THEN Len(r) + 1 ELSE d

\* urlsplit: fragment and query are split off
SplitTail(scheme, netloc, r) ==
    [scheme |-> scheme, netloc |-> netloc, path |-> Before(Before(r, "#"), "?"),
     query |-> After(Before(r, "#"), "?"), fragment |-> After(r, "#")]

\* urlsplit: the netloc is split off
SplitNetloc(scheme, r) ==
    SplitTail(scheme,
              IF StartsWith(r, <<"/", "/">>) THEN SubSeq(r, 3, NetlocEnd(r) - 1) ELSE <<>>,
              IF StartsWith(r, <<"/", "/">>) THEN DropFrom(r, NetlocEnd(r)) ELSE r)

\* urlsplit: the scheme is split off; c is SchemeEnd(url)
SplitScheme(url, c, default_scheme) ==
    SplitNetloc(IF c > 0 THEN Lower(SubSeq(url, 1, c - 1)) ELSE default_scheme,
                IF c > 0 THEN DropFrom(url, c + 1) ELSE url)

LeftStripped(url, default_scheme) == SplitScheme(url, SchemeEnd(url), default_scheme)

\* urlparse(url, scheme): a record of scheme, netloc, path, query, fragment.
urlparse(url, default_scheme) == LeftStripped(LStrip(url, Whitespace), default_scheme)

\* urlunsplit: '//' netloc path
WithNetloc(scheme, netloc, path) ==
    IF netloc # <<>>
       \/ (scheme # <<>> /\ scheme \in UsesNetloc /\ ~StartsWith(path, <<"/", "/">>))
    THEN <<"/", "/">> \o netloc
           \o (IF path # <<>> /\ path[1] # "/" THEN <<"/">> ELSE <<>>) \o path
    ELSE path

\* urlunparse((scheme, netloc, path, '', query, fragment))
urlunparse(scheme, netloc, path, query, fragment) ==
    (IF scheme # <<>> THEN scheme \o <<":">> ELSE <<>>)
      \o WithNetloc(scheme, netloc, path)
      \o (IF query # <<>> THEN <<"?">> \o query ELSE <<>>)
      \o (IF fragment # <<>> THEN <<"#">> \o fragment ELSE <<>>)

\* The loop of urljoin and of _normalize_components over path segments:
\* '.' is skipped, '..' pops (and is ignored on an empty list).
RECURSIVE RemoveDots(_, _)
RemoveDots(segments, acc) ==
    IF segments = <<>> THEN acc
    ELSE IF Head(segments) = <<".">> THEN RemoveDots(Tail(segments), acc)
    ELSE IF Head(segments) = <<".", ".">>
         THEN RemoveDots(Tail(segments),
                         IF acc = <<>> THEN acc ELSE SubSeq(acc, 1, Len(acc) - 1))
    ELSE RemoveDots(Tail(segments), Append(acc, Head(segments)))

\* segments[1:-1] = filter(None, segments[1:-1])
DropEmptyInner(segments) ==
    IF Len(segments) <= 2 THEN segments
    ELSE <<segments[1]>>
           \o SelectSeq(SubSeq(segments, 2, Len(segments) - 1), LAMBDA g : g # <<>>)
           \o <<segments[Len(segments)]>>

\* urljoin: base_parts, the base path without its last segment
BaseParts(bp) == IF bp[Len(bp)] # <<>> THEN SubSeq(bp, 1, Len(bp) - 1) ELSE bp

\* urljoin: segments
Segments(bpath, path) ==
    IF path[1] = "/" THEN Split(path, "/")
    ELSE DropEmptyInner(BaseParts(Split(bpath, "/")) \o Split(path, "/"))

OrRoot(joined) == IF joined = <<>> THEN <<"/">> ELSE joined

\* urljoin: '/'.join(resolved_path) or '/'
ResolvedPath(segments, resolved) ==
    OrRoot(Join(IF segments[Len(segments)] \in {<<".">>, <<".", ".">>}
                THEN Append(resolved, <<>>) ELSE resolved, "/"))

\* urljoin, with both URLs parsed
JoinParsed(url, b, u) ==
    IF u.scheme # b.scheme \/ u.scheme \notin UsesRelative THEN url
    ELSE urlunparse(
           u.scheme,
           IF u.scheme \in UsesNetloc /\ u.netloc = <<>> THEN b.netloc ELSE u.netloc,
           IF u.scheme \in UsesNetloc /\ u.netloc # <<>> THEN u.path
           ELSE IF u.path = <<>> THEN b.path
           ELSE ResolvedPath(Segments(b.path, u.path),
                             RemoveDots(Segments(b.path, u.path), <<>>)),
           IF u.scheme \in UsesNetloc /\ u.netloc # <<>> THEN u.query
           ELSE IF u.path = <<>> /\ u.query = <<>> THEN b.query
           ELSE u.query,
           u.fragment)

JoinBase(url, b) == JoinParsed(url, b, urlparse(url, b.scheme))

\* urllib.parse.urljoin(base, url)
urljoin(base, url) ==
    IF base = <<>> THEN url
    ELSE IF url = <<>> THEN base
    ELSE JoinBase(url, urlparse(base, <<>>))

(***************************************************************************)
(* utils.py: URLNormalizer.                                                *)
(***************************************************************************)
black_keywords ==
    {<<"javascript", ":">>, <<"mailto", ":">>, <<"tel", ":">>, <<"data", ":">>,
     <<"blob", ":">>, <<"about", ":">>}

AbsolutePrefixes ==
    {<<"http", ":", "/", "/">>, <<"https", ":", "/", "/">>, <<"ftp", ":", "/", "/">>}

\* _normalize_components, lines 84-88: the default port is removed
StripDefaultPort(scheme, netloc) ==
    LET c == Find(netloc, {":"}, 1)
    IN  IF c # 0 /\ ( (scheme = <<"http">> /\ DropFrom(netloc, c + 1) = <<"80">>)
                      \/ (scheme = <<"https">> /\ DropFrom(netloc, c + 1) = <<"443">>) )
        THEN SubSeq(netloc, 1, c - 1) ELSE netloc

\* _normalize_components, lines 90-105: the path
NormalizePath(path) ==
    Join(RemoveDots(Split(IF path = <<>> THEN <<"/">> ELSE path, "/"), <<>>), "/")

\* _normalize_components, lines 80-118, with the URL parsed
NormalizeParsed(parsed) ==
    urlunparse(Lower(parsed.scheme),
               StripDefaultPort(Lower(parsed.scheme), Lower(parsed.netloc)),
               NormalizePath(parsed.path), parsed.query, <<>>)

\* URLNormalizer._normalize_components(url)
normalize_components(url) == NormalizeParsed(urlparse(url, <<>>))

\* The same with the keywords compared in the case of the URL.
NormalizeStrippedCased(url, base_url) ==
    IF \E kw \in black_keywords : StartsWith(url, kw) THEN <<>>
    ELSE IF base_url = <<>> /\ ~\E p \in AbsolutePrefixes : StartsWith(url, p) THEN <<>>
    ELSE normalize_components(IF base_url = <<>> THEN url ELSE urljoin(base_url, url))

\* normalize, lines 51-72, with the URL stripped
NormalizeStripped(url, base_url) ==
    IF \E kw \in black_keywords : StartsWith(Lower(url), kw) THEN <<>>
    ELSE IF base_url = <<>> /\ ~\E p \in AbsolutePrefixes : StartsWith(url, p) THEN <<>>
    ELSE normalize_components(IF base_url = <<>> THEN url ELSE urljoin(base_url, url))

\* URLNormalizer.normalize(url, base_url); "" is <<>>.
normalize(url, base_url) ==
    IF url = <<>> \/ Strip(url, Whitespace) = <<>> THEN <<>>
    ELSE NormalizeStripped(Strip(Strip(Strip(url, Whitespace), {"\""}), {"'"}), base_url)

\* URLNormalizer.get_domain(url)
get_domain(url) == Lower(urlparse(url, <<>>).netloc)

\* get_base_domain, lines 142-148; parts is domain.split('.')
BaseOfParts(domain, parts) ==
    IF Len(parts) > 2
    THEN IF EndsWith(domain, <<".", "co", ".", "uk">>)
            \/ EndsWith(domain, <<".", "com", ".", "cn">>)
         THEN Join(SubSeq(parts, Len(parts) - 2, Len(parts)), ".")
         ELSE Join(SubSeq(parts, Len(parts) - 1, Len(parts)), ".")
    ELSE domain

BaseOfDomain(domain) == IF domain = <<>> THEN <<>> ELSE BaseOfParts(domain, Split(domain, "."))

\* URLNormalizer.get_base_domain(url)
get_base_domain(url) == BaseOfDomain(get_domain(url))

(***************************************************************************)
(* config.py: BLACKLIST_PATTERNS, each applied with pattern.search to the  *)
(* normalized URL.  All are anchored at the start.  No token of the        *)
(* alphabet starts with 'o', 'ms', 'moz', 'webkit', 'width', 'height' or   *)
(* a CJK character without being that word, and '%' is not in the alphabet.*)
(***************************************************************************)
BlacklistPrefixes ==
    {<<"javascript", ":">>, <<"mailto", ":">>, <<"tel", ":">>, <<"#">>,
     <<"data", ":">>, <<"blob", ":">>, <<"about", ":">>,
     <<"webkit">>, <<"moz">>, <<"ms">>, <<"o">>,
     <<"width">>, <<"height">>, <<"initial-scale">>, <<"maximum-scale">>,
     <<"minimum-scale">>, <<"user-scalable">>}

BlacklistWords == {<<"true">>, <<"false">>, <<"null">>, <<"undefined">>}

MatchesBlacklist(s) ==
    \/ \E p \in BlacklistPrefixes : StartsWith(Lower(s), p)
    \/ Lower(s) \in BlacklistWords
    \/ s # <<>> /\ \A k \in 1..Len(s) : s[k] \in DigitTok \cup Whitespace

(***************************************************************************)
(* filter.py: URLFilter.  A filter object is a record                      *)
(*   [domain, include_subdomains, exclude_patterns, include_patterns];     *)
(* a user-supplied pattern is a literal, compiled with re.IGNORECASE and   *)
(* applied with pattern.search.                                            *)
(***************************************************************************)
Search(pattern, s) == Contains(Lower(s), Lower(pattern))

\* The characters of [a-zA-Z0-9_\-] that the alphabet has
WordTok == AlphaTok \cup DigitTok

\* The number of characters of the run of tokens of T that starts at s[k].
RECURSIVE RunLen(_, _, _)
RunLen(s, k, T) ==
    IF k <= Len(s) /\ s[k] \in T THEN TokLen(s[k]) + RunLen(s, k + 1, T) ELSE 0

\* The index after the run of tokens of T that starts at s[k].
RECURSIVE RunEnd(_, _, _)
RunEnd(s, k, T) == IF k <= Len(s) /\ s[k] \in T THEN RunEnd(s, k + 1, T) ELSE k

\* A run that starts at s[k] and ends before e is followed by '.' and by at
\* least n letters.
DotLetters(s, k, e, n) ==
    e > k /\ e <= Len(s) /\ s[e] = "." /\ RunLen(s, e + 1, AlphaTok) >= n

\* re.match(r'^[a-zA-Z0-9_\-]+\.[a-zA-Z]{2,}', url)
MatchesDomainLike(url) == DotLetters(url, 1, RunEnd(url, 1, WordTok), 2)

\* re.match(r'^\.{0,2}/?[a-zA-Z0-9_\-/]+\.[a-zA-Z]{1,10}', url)
MatchesRelativeFile(url) ==
    \E k \in 0..2 :
       /\ Len(url) >= k
       /\ \A m \in 1..k : url[m] = "."
       /\ DotLetters(url, k + 1, RunEnd(url, k + 1, WordTok \cup {"/"}), 1)

\* URLFilter._is_valid_url_format(url)
is_valid_url_format(url) ==
    IF CharLen(url) < 3 THEN FALSE
    ELSE IF \A k \in 1..Len(url) : url[k] \notin WordTok \cup {"/"} THEN FALSE
    ELSE IF \A k \in 1..Len(url) : url[k] \notin WordTok THEN FALSE
    ELSE IF ~( \/ \E p \in AbsolutePrefixes \cup {<<"/", "/">>, <<"/">>} : StartsWith(url, p)
               \/ MatchesDomainLike(url) )
            /\ ~MatchesRelativeFile(url)
         THEN FALSE
    ELSE TRUE

\* URLFilter.__init__: self.base_domain
base_domain(f) == IF f.domain # <<>> THEN get_base_domain(f.domain) ELSE <<>>

\* URLFilter._is_subdomain(url_domain, base_domain)
is_subdomain(url_domain, base) ==
    IF url_domain = <<>> \/ base = <<>> THEN FALSE
    ELSE url_domain = base \/ EndsWith(url_domain, <<".">> \o base)

\* URLFilter._matches_include_patterns(url)
matches_include_patterns(f, url) ==
    IF f.include_patterns = {} THEN FALSE
    ELSE \E p \in f.include_patterns : Search(p, url)

\* filter, lines 80-91: the host is outside the scope
OutOfScope(f, url_domain) ==
    IF f.include_subdomains
    THEN ~is_subdomain(url_domain, base_domain(f))
    ELSE get_base_domain(url_domain) # base_domain(f)

\* filter, lines 72-91: the domain check rejects
DomainRejects(f, normalized_url, url_domain) ==
    /\ f.domain # <<>>
    /\ url_domain # <<>>
    /\ OutOfScope(f, url_domain)
    /\ ~matches_include_patterns(f, normalized_url)

\* The same without the test of the include patterns of lines 94-95.
FilterNormalizedScopeOnly(f, normalized_url) ==
    IF normalized_url = <<>> THEN FALSE
    ELSE IF MatchesBlacklist(normalized_url)
            \/ \E p \in f.exclude_patterns : Search(p, normalized_url)
         THEN FALSE
    ELSE ~DomainRejects(f, normalized_url, Lower(urlparse(normalized_url, <<>>).netloc))

\* filter, lines 64-97, with the URL normalized
FilterNormalized(f, normalized_url) ==
    IF normalized_url = <<>> THEN FALSE
    ELSE IF MatchesBlacklist(normalized_url)
            \/ \E p \in f.exclude_patterns : Search(p, normalized_url)
         THEN FALSE
    ELSE IF DomainRejects(f, normalized_url, Lower(urlparse(normalized_url, <<>>).netloc))
         THEN FALSE
    ELSE IF f.include_patterns # {} /\ ~matches_include_patterns(f, normalized_url)
         THEN FALSE
    ELSE TRUE

\* filter, lines 58-63, with the URL stripped
FilterStripped(f, url) ==
    IF ~is_valid_url_format(url) THEN FALSE
    ELSE FilterNormalized(f, normalize(url, f.domain))

\* URLFilter.filter(url)
filter(f, url) ==
    IF url = <<>> \/ Strip(url, Whitespace) = <<>> THEN FALSE
    ELSE FilterStripped(f, Strip(url, Whitespace))

\* URLFilter.filter_batch(urls), on the set of candidates
filter_batch(f, urls) == {u \in urls : filter(f, u)}

\* categorize_urls, lines 170-188, for one URL: the buckets that
\* normalized is appended to.  The first if/elif chain looks at the path,
\* the second, entered for every URL, at the netloc.
BucketsOf(f, normalized, path, url_domain) ==
    (IF \E ext \in {"js", "css", "png", "jpg", "jpeg", "gif", "svg", "ico", "woff", "woff2"} :
           EndsWith(path, <<".", ext>>)
     THEN {"static"}
     ELSE IF \E ext \in {"pdf", "doc", "docx", "xls", "xlsx", "ppt", "pptx"} :
                EndsWith(path, <<".", ext>>)
          THEN {"files"}
     ELSE IF Contains(path, <<"/", "api", "/">>)
             \/ EndsWith(path, <<".", "json">>) \/ EndsWith(path, <<".", "xml">>)
          THEN {"apis"}
     ELSE {})
    \cup
    (IF url_domain = <<>> THEN {"internal"}
     ELSE IF url_domain = get_domain(f.domain) THEN {"internal"}
     ELSE IF get_base_domain(url_domain) = base_domain(f) THEN {"subdomains"}
     ELSE {"external"})

\* URLFilter.categorize_urls(urls), urls a list: each bucket is the list of
\* the normalized URLs appended to it, in the order of urls.
categorize_urls(f, urls) ==
    LET normalized == [k \in DOMAIN urls |-> normalize(urls[k], f.domain)]
        parsed == [k \in DOMAIN urls |-> urlparse(normalized[k], <<>>)]
        chosen == [k \in DOMAIN urls |->
                      BucketsOf(f, normalized[k], Lower(parsed[k].path),
                                Lower(parsed[k].netloc))]
        keys(c) == SelectSeq([k \in DOMAIN urls |-> k], LAMBDA k : c \in chosen[k])
    IN  [c \in {"internal", "subdomains", "external", "files", "apis", "static"} |->
            IF f.domain = <<>> THEN <<>>
            ELSE [j \in DOMAIN keys(c) |-> normalized[keys(c)[j]]]]

(***************************************************************************)
(* Bounds of the model.                                                    *)
(***************************************************************************)
\* crawl_deep is called with max_depth in 1..MaxDepth
MaxDepth == 2

\* and with max_pages in 1..MaxPages.
MaxPages == 3

\* A response body holds at most MaxLinks URL candidates.
MaxLinks == 1

\* crawl_batch runs on a pool of MaxWorkers workers
MaxWorkers == 2

\* and is called with a list of 1..MaxBatch URLs.
MaxBatch == 2

\* crawler.py:154, js_urls[:5]
JSLimit == 5

\* crawl_deep is called up to MaxCrawls times on one crawler.
MaxCrawls == 2

(***************************************************************************)
(* The site.  A response is an error (any of the except clauses of fetch,  *)
(* which all log and return None), an empty body, or a body; of a body the *)
(* model keeps the set of raw candidates the extraction strategies find in *)
(* it.  What a URL serves is chosen when it is fetched, so every link      *)
(* graph over the candidates, cyclic or not, is covered.                   *)
(***************************************************************************)
S_home == <<"https", ":", "/", "/", "example", ".", "com">>

S_home_slash == S_home \o <<"/">>

C_page == <<"/", "a", "/", "i", ".", "html">>

S_page == S_home \o C_page

C_relative == <<"x", ".", "html">>

C_script == <<"/", "s", ".", "js">>

C_favicon == <<"/", "favicon", ".", "ico">>

C_javascript == <<"javascript", ":", "void", "(", "0", ")">>

C_foreign == <<"https", ":", "/", "/", "not", "example", ".", "com", "/", "x">>

\* A page of a subdomain of the site.
U_api == <<"https", ":", "/", "/", "api", ".", "example", ".", "com", "/", "x">>

\* A script of a subdomain of the site.
U_api_script == U_api \o <<".", "js">>

\* A script named relative to the page that links it.
C_relative_script == <<"x", ".", "js">>

\* The scripts of a page that links one script more than crawl_page follows.
PageScripts == {S_home \o <<"/", ToString(k), ".", "js">> : k \in 1..(JSLimit + 1)}

\* The URLs an extractor is built for, and the URLs of a batch.
Seeds == {S_home, S_home_slash}

BatchInputs == {S_home, S_page}

\* The raw candidates a fetched body may hold.
Candidates == {S_home, C_page, C_relative, C_script, C_javascript, C_foreign}

Bodies == {S \in SUBSET Candidates : Cardinality(S) <= MaxLinks}

ErrorResponse == [ok |-> FALSE, text |-> FALSE, cands |-> {}]

EmptyResponse == [ok |-> TRUE, text |-> FALSE, cands |-> {}]

Content(S) == [ok |-> TRUE, text |-> TRUE, cands |-> S]

Responses == {ErrorResponse, EmptyResponse} \cup {Content(S) : S \in Bodies}

\* A site with fixed contents: the home page links the script of the
\* subdomain, and that script holds no URL.
FixedSite == (S_home :> Content({U_api_script})) @@ (U_api_script :> Content({}))

\* The raw candidates of the contents handed to the extractor directly, and
\* the base URLs they are handed with (<<>> is None).
ExtractCandidates == {C_relative, C_favicon}

ExtractContents == {Content(S) : S \in SUBSET ExtractCandidates}

ExtractBases == {<<>>, S_home, S_page}

\* User-supplied patterns: --exclude '/a/x\.' and --filter 'api'
P_exclude == <<"/", "a", "/", "x", ".">>

P_include == <<"api">>

(***************************************************************************)
(* extractor.py: URLExtractor.                                             *)
(***************************************************************************)
\* extract_from_html, lines 58-64: the default favicon of the base URL
FaviconOf(base_url, parsed) ==
    IF base_url # <<>> /\ parsed.scheme # <<>> /\ parsed.netloc # <<>>
    THEN {parsed.scheme \o <<":", "/", "/">> \o parsed.netloc
            \o <<"/", "favicon", ".", "ico">>}
    ELSE {}

favicon(base_url) == FaviconOf(base_url, urlparse(base_url, <<>>))

\* The candidates extract_from_html works on: those of the strategies, and
\* the favicon.
html_candidates(content, base_url) == content.cands \cup favicon(base_url)

\* extract_from_html, lines 40-56: the values `urls` can have at line 58
\* when _extract_with_regex, _extract_with_soup and _extract_from_javascript
\* find regex_urls, soup_urls and js_urls and the one named by raises hits a
\* fault.  _extract_with_regex has no handler: its fault leaves line 44 for
\* the handler of line 55.  The other two catch their fault themselves and
\* return what they had found so far.
urls_gathered(regex_urls, soup_urls, js_urls, raises) ==
    IF raises = "regex" THEN {{}}
    ELSE {regex_urls \cup found_soup \cup found_js :
             found_soup \in IF raises = "soup" THEN SUBSET soup_urls ELSE {soup_urls},
             found_js \in IF raises = "javascript" THEN SUBSET js_urls ELSE {js_urls}}

\* The candidates extract_from_js works on.
js_candidates(content, base_url) == content.cands

(***************************************************************************)
(* normalize and filter on the strings of the site, computed once: every   *)
(* string a crawl of the site can hand to them is a candidate, a favicon   *)
(* or a URL normalize has returned for one of these and a base.            *)
(***************************************************************************)
RECURSIVE Closure(_)
Closure(S) ==
    LET T == S \cup UNION {favicon(b) : b \in S}
               \cup ({normalize(c, b) : c \in Candidates \cup ExtractCandidates, b \in S}
                        \ {<<>>})
    IN  IF T = S THEN S ELSE Closure(T)

AllUrls ==
    Closure(Seeds \cup BatchInputs \cup {U_api, U_api_script} \cup PageScripts
              \cup {normalize(C_relative_script, b) : b \in {S_home, S_page}})

AllStrings == Candidates \cup ExtractCandidates \cup AllUrls \cup {C_relative_script}

\* main.py, lines 195-200: the filter of a crawl
FilterFor(domain, exclude_patterns) ==
    [domain |-> domain, include_patterns |-> {}, include_subdomains |-> TRUE,
     exclude_patterns |-> exclude_patterns]

FilterConfigs == {FilterFor(d, e) : d \in Seeds, e \in {{}, {P_exclude}}}

NormTable == [u \in AllStrings |-> [b \in AllUrls \cup {<<>>} |-> normalize(u, b)]]

FilterTable == [f \in FilterConfigs |-> [u \in AllStrings |-> filter(f, u)]]

(***************************************************************************)
(* extractor.py: the filtering and the cache loop of extract_from_html and *)
(* extract_from_js.                                                        *)
(***************************************************************************)
\* The cache loop without its test of the cache.
CacheAdmitsAgain(normalized, cache) == normalized # <<>>

\* lines 72 and 118: `if normalized and normalized not in self._extracted_cache`
CacheAdmits(normalized, cache) == normalized # <<>> /\ normalized \notin cache

\* lines 70-75 and 116-121: new_urls, for filtered_urls in their list order
RECURSIVE CacheLoop(_, _, _, _)
CacheStep(normalized, rest, base_url, cache, new_urls) ==
    IF CacheAdmits(normalized, cache)
    THEN CacheLoop(rest, base_url, cache \cup {normalized}, Append(new_urls, normalized))
    ELSE CacheLoop(rest, base_url, cache, new_urls)

CacheLoop(filtered_urls, base_url, cache, new_urls) ==
    IF filtered_urls = <<>> THEN new_urls
    ELSE CacheStep(NormTable[Head(filtered_urls)][base_url], Tail(filtered_urls),
                   base_url, cache, new_urls)

\* lines 67-77 and 113-123: the lists the call can return; urls is a Python
\* set, so list(urls) is in any order.
ExtractFrom(f, cache, urls, base_url) ==
    {CacheLoop(order, base_url, cache, <<>>) :
        order \in Orders({u \in urls : FilterTable[f][u]})}

extract_from_html(f, cache, content, base_url) ==
    ExtractFrom(f, cache, html_candidates(content, base_url), base_url)

extract_from_js(f, cache, content, base_url) ==
    ExtractFrom(f, cache, js_candidates(content, base_url), base_url)

\* The same on an empty cache, as a set, for any strings.
emitted(f, urls, base_url) ==
    {normalize(u, base_url) : u \in filter_batch(f, urls)} \ {<<>>}

BagOfSeq(s) == [u \in Range(s) |-> Cardinality({k \in DOMAIN s : s[k] = u})]

\* SubdomainExtractor(domain).extract_from_urls(urls), urls a list.
\* tldextract.extract takes the host of the netloc (no userinfo, no port)
\* and splits its labels into subdomain, domain and public suffix;
\* full_domain joins the parts that are not empty.
extract_from_urls(domain, urls) ==
    LET labels(d) == Split(Before(IF "@" \in Range(d) THEN After(d, "@") ELSE d, ":"), ".")
        suffix(l) == IF Len(l) >= 2 /\ SubSeq(l, Len(l) - 1, Len(l))
                                          \in {<<<<"co">>, <<"uk">>>>, <<<<"com">>, <<"cn">>>>}
                     THEN 2
                     ELSE IF l[Len(l)] \in {<<"com">>, <<"uk">>, <<"cn">>} THEN 1 ELSE 0
        parts(l, n) == <<Join(SubSeq(l, 1, Len(l) - n - 1), "."),
                         IF n = 0 THEN l[Len(l)]
                         ELSE IF Len(l) > n THEN l[Len(l) - n] ELSE <<>>,
                         IF n = 0 THEN <<>> ELSE Join(SubSeq(l, Len(l) - n + 1, Len(l)), ".")>>
        full_domain(d) == Join(SelectSeq(parts(labels(d), suffix(labels(d))),
                                         LAMBDA part : part # <<>>), ".")
        url_domain(k) == Lower(urlparse(urls[k], <<>>).netloc)
    IN  {full_domain(url_domain(k)) :
            k \in {i \in DOMAIN urls :
                      /\ url_domain(i) # <<>>
                      /\ EndsWith(full_domain(url_domain(i)), get_base_domain(domain))
                      /\ full_domain(url_domain(i)) # get_base_domain(domain)}}

\* extract_from_urls on the lists of one URL of the site, computed once.
SubdomainTable == [d \in Seeds |-> [u \in AllUrls |-> extract_from_urls(d, <<u>>)]]

(***************************************************************************)
(* State.                                                                  *)
(***************************************************************************)
VARIABLES
    start_url,        \* crawl_deep: its arguments
    max_depth,
    max_pages,
    extract_js,
    url_filter,       \* URLExtractor.filter, a URLFilter
    visited_urls,     \* WebCrawler.visited_urls
    extracted_cache,  \* URLExtractor._extracted_cache
    queue,            \* crawl_deep: queue, a list of (url, depth);
                      \* crawl_batch: the URLs submitted and not yet started
    processed,        \* crawl_deep: processed; crawl_batch: the progress count
    all_urls,         \* crawl_deep / crawl_batch: all_urls
    current,          \* crawl_deep: (current_url, depth)
    loop_pc,          \* where the crawl is: "loop", "page", "batch", "done"
    thr,              \* per thread: where it is in crawl_page and fetch
    requests,         \* history: the bag of <<url, at>> requested from the network
    failed_tasks,     \* history: URLs of the dequeued tasks whose fetch failed
    results,          \* history: what each finished crawl_deep or crawl_batch
                      \* call has returned, (URLs, subdomains) as a record
    returned,         \* history: the bag of URLs the extractor has returned
    extracted_from,   \* history: <<url, at>> of the bodies run through extraction
    extract_call,     \* the last direct call of the extractor, and a watched one
    admit_call        \* a call of normalize and filter, and what it returned

vars ==
    <<start_url, max_depth, max_pages, extract_js, url_filter, visited_urls,
      extracted_cache, queue, processed, all_urls, current, loop_pc, thr,
      requests, failed_tasks, results, returned, extracted_from, extract_call,
      admit_call>>

config_vars == <<start_url, max_depth, max_pages, extract_js, url_filter>>

loop_vars == <<queue, processed, all_urls, current, loop_pc, failed_tasks, results>>

call_vars == <<extract_call, admit_call>>

\* Thread 0 is the caller of crawl_deep and crawl_batch, the others are the
\* workers of the pool of crawl_batch.
Main == 0

Workers == 1..MaxWorkers

Threads == {Main} \cup Workers

IdleFrame ==
    [url |-> <<>>, js_urls |-> <<>>, pc |-> "idle", fetch_url |-> <<>>, at |-> "page",
     page_urls |-> <<>>, failed |-> FALSE]

\* crawl_page(url, extract_js) is entered: line 144 calls fetch(url).
EnterCrawlPage(url) ==
    [IdleFrame EXCEPT !.pc = "fetch", !.url = url, !.fetch_url = url]

(***************************************************************************)
(* crawler.py: WebCrawler.fetch and WebCrawler.crawl_page, per thread.     *)
(***************************************************************************)
IsScript(u) == EndsWith(u, <<".", "js">>)

\* The scripts of the page without the cut at JSLimit.
js_urls_uncut(page_urls) ==
    IF extract_js THEN SelectSeq(page_urls, IsScript) ELSE <<>>

\* crawl_page, lines 152-154
js_urls_of(page_urls) ==
    IF extract_js THEN Take(SelectSeq(page_urls, IsScript), JSLimit) ELSE <<>>

\* crawl_page, line 154: the next script is fetched, or line 160 returns.
NextScript(fr) ==
    IF fr.js_urls = <<>> THEN [fr EXCEPT !.pc = "return"]
    ELSE [fr EXCEPT !.pc = "fetch", !.at = "js",
                    !.fetch_url = Head(fr.js_urls), !.js_urls = Tail(fr.js_urls)]

\* A page without content that hands back its own URL.
NoContentEchoes(fr, error) ==
    [fr EXCEPT !.pc = "return", !.page_urls = <<fr.url>>, !.failed = error]

\* crawl_page, lines 145-146: `if not content: return [], []`
NoContent(fr, error) ==
    [fr EXCEPT !.pc = "return", !.page_urls = <<>>, !.failed = error]

\* crawl_page after fetch has returned, with the list new_urls that the
\* extractor returns for the content: lines 145-154 for the page, lines
\* 156-158 for a script.
Resume(t, has, error, new_urls) ==
    /\ extracted_cache' = extracted_cache \cup Range(new_urls)
    /\ returned' = returned (+) BagOfSeq(new_urls)
    /\ extracted_from' = IF has THEN extracted_from \cup {<<thr[t].fetch_url, thr[t].at>>}
                         ELSE extracted_from
    /\ thr' = [thr EXCEPT ![t] =
          IF thr[t].at = "page"
          THEN IF has
               THEN NextScript([thr[t] EXCEPT !.page_urls = new_urls,
                                              !.js_urls = js_urls_of(new_urls)])
               ELSE NoContent(thr[t], error)
          ELSE NextScript([thr[t] EXCEPT !.page_urls = thr[t].page_urls \o new_urls])]

\* fetch has returned content (None is ErrorResponse): `if not content`, and
\* extract_from_html(content, url) or extract_from_js(js_content, js_url).
AfterFetch(t, content, error) ==
    \E new_urls \in IF content.ok /\ content.text
                    THEN IF thr[t].at = "page"
                         THEN extract_from_html(url_filter, extracted_cache, content,
                                                thr[t].fetch_url)
                         ELSE extract_from_js(url_filter, extracted_cache, content,
                                              thr[t].fetch_url)
                    ELSE {<<>>} :
        Resume(t, content.ok /\ content.text, error, new_urls)

\* fetch, lines 88-89: the visited check
Fetch(t) ==
    /\ thr[t].pc = "fetch"
    /\ IF thr[t].fetch_url \in visited_urls
       THEN AfterFetch(t, ErrorResponse, FALSE)
       ELSE /\ thr' = [thr EXCEPT ![t].pc = "request"]
            /\ UNCHANGED <<extracted_cache, returned, extracted_from>>
    /\ UNCHANGED <<config_vars, loop_vars, call_vars, visited_urls, requests>>

\* The same with the URL put in visited_urls before the request is made.
ResponseVisitedFirst(t) ==
    /\ thr[t].pc = "request"
    /\ \E r \in Responses :
         /\ visited_urls' = visited_urls \cup {thr[t].fetch_url}
         /\ AfterFetch(t, r, ~r.ok)
    /\ requests' = requests (+) SetToBag({<<thr[t].fetch_url, thr[t].at>>})
    /\ UNCHANGED <<config_vars, loop_vars, call_vars>>

\* fetch, lines 91-128: the request and its outcome
Response(t) ==
    /\ thr[t].pc = "request"
    /\ \E r \in Responses :
         /\ visited_urls' = IF r.ok THEN visited_urls \cup {thr[t].fetch_url}
                            ELSE visited_urls
         /\ AfterFetch(t, r, ~r.ok)
    /\ requests' = requests (+) SetToBag({<<thr[t].fetch_url, thr[t].at>>})
    /\ UNCHANGED <<config_vars, loop_vars, call_vars>>

\* The same on a site whose pages link some of PageScripts, or fail, and
\* whose scripts fail or hold the link /s.js.
ResponseWithScripts(t) ==
    /\ thr[t].pc = "request"
    /\ \E r \in IF thr[t].at = "page"
                THEN {ErrorResponse} \cup {Content(S) : S \in SUBSET PageScripts}
                ELSE {ErrorResponse, Content({C_script})} :
         /\ visited_urls' = IF r.ok THEN visited_urls \cup {thr[t].fetch_url}
                            ELSE visited_urls
         /\ AfterFetch(t, r, ~r.ok)
    /\ requests' = requests (+) SetToBag({<<thr[t].fetch_url, thr[t].at>>})
    /\ UNCHANGED <<config_vars, loop_vars, call_vars>>

\* The same on a site whose pages fail, link the page /a/i.html or link the
\* script x.js.
ResponseRelativeScript(t) ==
    /\ thr[t].pc = "request"
    /\ \E r \in {ErrorResponse, Content({C_page}), Content({C_relative_script})} :
         /\ visited_urls' = IF r.ok THEN visited_urls \cup {thr[t].fetch_url}
                            ELSE visited_urls
         /\ AfterFetch(t, r, ~r.ok)
    /\ requests' = requests (+) SetToBag({<<thr[t].fetch_url, thr[t].at>>})
    /\ UNCHANGED <<config_vars, loop_vars, call_vars>>

\* The same on FixedSite, where every request succeeds.
ResponseFixed(t) ==
    /\ thr[t].pc = "request"
    /\ visited_urls' = visited_urls \cup {thr[t].fetch_url}
    /\ AfterFetch(t, FixedSite[thr[t].fetch_url], FALSE)
    /\ requests' = requests (+) SetToBag({<<thr[t].fetch_url, thr[t].at>>})
    /\ UNCHANGED <<config_vars, loop_vars, call_vars>>

(***************************************************************************)
(* crawler.py: WebCrawler.crawl_deep.                                      *)
(***************************************************************************)
\* The depth test taken as `depth <= max_depth`.
DepthAllowsInclusive(depth) == depth <= max_depth

\* line 206: `if depth < max_depth`
DepthAllows(depth) == depth < max_depth

\* The loop test taken as `processed <= max_pages`.
LoopTestInclusive == queue # <<>> /\ processed <= max_pages

\* line 192: `while queue and processed < max_pages`
LoopTest == queue # <<>> /\ processed < max_pages

\* A read of the head of the queue that leaves it in the queue.
Peeked(q) == q

\* line 193: queue.pop(0), the queue it leaves
Popped(q) == Tail(q)

\* lines 207-210: the tasks appended for page_urls
Tasks(admitted, depth) ==
    [k \in 1..Len(admitted) |-> [url |-> admitted[k], depth |-> depth]]

Successors(page_urls, depth) ==
    Tasks(SelectSeq(page_urls, LAMBDA u : FilterTable[url_filter][u]), depth + 1)

\* The same with a skipped task counted as a processed page.
DeepDequeueCounting ==
    /\ loop_pc = "loop"
    /\ LoopTest
    /\ current' = Head(queue)
    /\ queue' = Popped(queue)
    /\ IF Head(queue).url \in visited_urls
       THEN processed' = processed + 1 /\ UNCHANGED <<loop_pc, thr>>
       ELSE /\ loop_pc' = "page"
            /\ thr' = [thr EXCEPT ![Main] = EnterCrawlPage(Head(queue).url)]
            /\ UNCHANGED processed
    /\ UNCHANGED <<config_vars, call_vars, visited_urls, extracted_cache,
                   all_urls, requests, failed_tasks, returned, extracted_from,
                   results>>

\* lines 192-200: the loop test, the pop, the visited check, the call
DeepDequeue ==
    /\ loop_pc = "loop"
    /\ LoopTest
    /\ current' = Head(queue)
    /\ queue' = Popped(queue)
    /\ IF Head(queue).url \in visited_urls
       THEN UNCHANGED <<loop_pc, thr>>
       ELSE /\ loop_pc' = "page"
            /\ thr' = [thr EXCEPT ![Main] = EnterCrawlPage(Head(queue).url)]
    /\ UNCHANGED <<config_vars, call_vars, visited_urls, extracted_cache, processed,
                   all_urls, requests, failed_tasks, returned, extracted_from,
                   results>>

\* The same with the new tasks put in front of the queue.
DeepCollectInFront ==
    /\ loop_pc = "page"
    /\ thr[Main].pc = "return"
    /\ all_urls' = all_urls \cup Range(thr[Main].page_urls)
    /\ queue' = IF DepthAllows(current.depth)
                THEN Successors(thr[Main].page_urls, current.depth) \o queue
                ELSE queue
    /\ processed' = processed + 1
    /\ failed_tasks' = IF thr[Main].failed THEN failed_tasks \cup {thr[Main].url}
                       ELSE failed_tasks
    /\ thr' = [thr EXCEPT ![Main] = IdleFrame]
    /\ loop_pc' = "loop"
    /\ UNCHANGED <<config_vars, call_vars, visited_urls, extracted_cache, current,
                   requests, returned, extracted_from, results>>

\* lines 200-213: crawl_page has returned
DeepCollect ==
    /\ loop_pc = "page"
    /\ thr[Main].pc = "return"
    /\ all_urls' = all_urls \cup Range(thr[Main].page_urls)
    /\ queue' = IF DepthAllows(current.depth)
                THEN queue \o Successors(thr[Main].page_urls, current.depth)
                ELSE queue
    /\ processed' = processed + 1
    /\ failed_tasks' = IF thr[Main].failed THEN failed_tasks \cup {thr[Main].url}
                       ELSE failed_tasks
    /\ thr' = [thr EXCEPT ![Main] = IdleFrame]
    /\ loop_pc' = "loop"
    /\ UNCHANGED <<config_vars, call_vars, visited_urls, extracted_cache, current,
                   requests, returned, extracted_from, results>>

\* line 192: the loop test fails; lines 215-226.  extract_from_urls takes
\* the URLs of list(all_urls) one by one, so what it returns is the union of
\* what it returns for each of them.
DeepFinish ==
    /\ loop_pc = "loop"
    /\ ~LoopTest
    /\ loop_pc' = "done"
    /\ results' = Append(results,
          [urls |-> all_urls,
           subdomains |-> IF all_urls # {} /\ url_filter.domain # <<>>
                          THEN UNION {SubdomainTable[url_filter.domain][u] : u \in all_urls}
                          ELSE {}])
    /\ UNCHANGED <<config_vars, call_vars, visited_urls, extracted_cache, queue,
                   processed, all_urls, current, thr, requests, failed_tasks,
                   returned, extracted_from>>

\* lines 175-190: crawl_deep is called again, on the same crawler and
\* extractor and with the same arguments, after it has returned.  The
\* locals all_urls, queue and processed are set anew; self.visited_urls and
\* the extractor's _extracted_cache are set in the constructors only.
DeepAgain ==
    /\ loop_pc = "done"
    /\ Len(results) < MaxCrawls
    /\ queue' = <<[url |-> start_url, depth |-> 0]>>
    /\ processed' = 0
    /\ all_urls' = {}
    /\ loop_pc' = "loop"
    /\ UNCHANGED <<config_vars, call_vars, visited_urls, extracted_cache, current, thr,
                   requests, failed_tasks, results, returned, extracted_from>>

(***************************************************************************)
(* crawler.py: WebCrawler.crawl_batch.  executor.submit queues every URL   *)
(* of the list; a free worker of the pool takes the next one and runs      *)
(* process_url; the caller takes the results as the futures complete.      *)
(***************************************************************************)
\* lines 246-248: a worker starts process_url(url)
BatchStart(t) ==
    /\ loop_pc = "batch"
    /\ thr[t].pc = "idle"
    /\ queue # <<>>
    /\ thr' = [thr EXCEPT ![t] = EnterCrawlPage(Head(queue).url)]
    /\ queue' = Tail(queue)
    /\ UNCHANGED <<config_vars, call_vars, visited_urls, extracted_cache, processed,
                   all_urls, current, loop_pc, requests, failed_tasks, returned,
                   extracted_from, results>>

\* process_url, lines 246-251: crawl_page raises in the worker and the
\* handler returns [] for the URL.  fetch catches what the request raises,
\* so the fault comes before the request or after the response, in the
\* statements of the extraction that no handler guards (extractor.py lines
\* 55-67; the cache loop calls only normalize, which catches its faults):
\* then the request has been made and the URL is visited.
Fault(t) ==
    /\ loop_pc = "batch"
    /\ thr[t].pc \in {"fetch", "request"}
    /\ IF thr[t].pc = "request"
       THEN /\ visited_urls' = visited_urls \cup {thr[t].fetch_url}
            /\ requests' = requests (+) SetToBag({<<thr[t].fetch_url, thr[t].at>>})
       ELSE UNCHANGED <<visited_urls, requests>>
    /\ thr' = [thr EXCEPT ![t] = NoContent(thr[t], TRUE)]
    /\ failed_tasks' = failed_tasks \cup {thr[t].url}
    /\ UNCHANGED <<config_vars, call_vars, extracted_cache, queue, processed, all_urls,
                   current, loop_pc, returned, extracted_from, results>>

\* The same with a fault of the worker raised again by future.result() and
\* left to end crawl_batch.
BatchCollectRaises(t) ==
    /\ loop_pc = "batch"
    /\ thr[t].pc = "return"
    /\ all_urls' = all_urls \cup Range(thr[t].page_urls)
    /\ processed' = processed + 1
    /\ thr' = [thr EXCEPT ![t] = IdleFrame]
    /\ loop_pc' = IF thr[t].failed THEN "done" ELSE loop_pc
    /\ UNCHANGED <<config_vars, call_vars, visited_urls, extracted_cache, queue,
                   current, requests, failed_tasks, returned, extracted_from,
                   results>>

\* lines 260-265 and 270-273: a future has completed, all_urls.update
BatchCollect(t) ==
    /\ loop_pc = "batch"
    /\ thr[t].pc = "return"
    /\ all_urls' = all_urls \cup Range(thr[t].page_urls)
    /\ processed' = processed + 1
    /\ thr' = [thr EXCEPT ![t] = IdleFrame]
    /\ UNCHANGED <<config_vars, call_vars, visited_urls, extracted_cache, queue,
                   current, loop_pc, requests, failed_tasks, returned, extracted_from,
                   results>>

\* line 278: every future has completed; all_subdomains is the empty set
\* of line 244.
BatchFinish ==
    /\ loop_pc = "batch"
    /\ queue = <<>>
    /\ \A t \in Workers : thr[t].pc = "idle"
    /\ loop_pc' = "done"
    /\ results' = Append(results, [urls |-> all_urls, subdomains |-> {}])
    /\ UNCHANGED <<config_vars, call_vars, visited_urls, extracted_cache, queue,
                   processed, all_urls, current, thr, requests, failed_tasks,
                   returned, extracted_from>>

(***************************************************************************)
(* Direct calls of the extractor: extract_from_html and extract_from_js on *)
(* one URLExtractor, in any sequence.  extract_call keeps the last call    *)
(* and, once chosen, one earlier call that is watched for a repetition.    *)
(***************************************************************************)
NoCall == [base_url |-> <<>>, cands |-> {}, kind |-> "none", result |-> <<>>]

NoExtractCall == [last |-> NoCall, watched |-> NoCall, repeat |-> FALSE]

SameCall(a, b) == a.kind = b.kind /\ a.cands = b.cands /\ a.base_url = b.base_url

Called(call) ==
    /\ extracted_cache' = extracted_cache \cup Range(call.result)
    /\ returned' = returned (+) BagOfSeq(call.result)
    /\ \E watched \in IF extract_call.watched = NoCall
                      THEN {NoCall, call} ELSE {extract_call.watched} :
         extract_call' = [last |-> call, watched |-> watched,
                          repeat |-> SameCall(call, extract_call.watched)]
    /\ UNCHANGED <<config_vars, loop_vars, visited_urls, thr, requests,
                   extracted_from, admit_call>>

ExtractHtml ==
    \E content \in ExtractContents, base_url \in ExtractBases :
      \E new_urls \in extract_from_html(url_filter, extracted_cache, content, base_url) :
        Called([base_url |-> base_url, cands |-> content.cands, kind |-> "page",
                result |-> new_urls])

ExtractJs ==
    \E content \in ExtractContents, base_url \in ExtractBases :
      \E new_urls \in extract_from_js(url_filter, extracted_cache, content, base_url) :
        Called([base_url |-> base_url, cands |-> content.cands, kind |-> "js",
                result |-> new_urls])

(***************************************************************************)
(* Calls of normalize and filter on any string, base and filter.           *)
(***************************************************************************)
I_JavaScript == <<"JavaScript", ":", "void", "(", "0", ")">>

I_mailto == <<"mailto", ":", "a", "@", "example", ".", "com">>

I_MAILTO == <<"MAILTO", ":", "a", "@", "example", ".", "com">>

I_tel == <<"tel", ":", "80">>

I_data == <<"data", ":", "x", ".", "html">>

I_blob == <<"blob", ":">> \o S_page

I_about == <<"about", ":", "blank">>

U_port == <<"http", ":", "/", "/", "example", ".", "com", ":", "8080", "/", "a">>

U_relative_api == <<"/", "/", "api", ".", "example", ".", "com", "/", "x">>

Blacklisted ==
    {C_javascript, I_JavaScript, I_mailto, I_MAILTO, I_tel, I_data, I_blob, I_about}

\* Further raw strings: a foreign host that an include pattern matches,
\* dot segments, letter case, ports, userinfo, fragments, quotes.
Raw ==
    [fragment    |-> <<"#", "x">>,
     foreign_api |-> <<"https", ":", "/", "/", "api", ".", "not", "example", ".", "com", "/", "x">>,
     upper_api   |-> <<"https", ":", "/", "/", "api", ".", "Example", ".", "com", "/", "x">>,
     to_root     |-> <<"https", ":", "/", "/", "example", ".", "com", "/", "a", "/", ".", ".">>,
     parent      |-> <<".", ".", "/", "b">>,
     above_root  |-> <<".", ".", "/", ".", ".", "/", ".", ".", "/", "b">>,
     here        |-> <<".", "/", "b">>,
     host_parent |-> <<"/", "/", "api", ".", "example", ".", "com", "/", "a", "/", ".", ".">>,
     upper       |-> <<"HTTPS", ":", "/", "/", "Example", ".", "com", "/", "Example">>,
     lower       |-> <<"https", ":", "/", "/", "example", ".", "com", "/", "Example">>,
     port80      |-> <<"http", ":", "/", "/", "example", ".", "com", ":", "80", "/", "a">>,
     port443     |-> <<"https", ":", "/", "/", "example", ".", "com", ":", "443", "/", "a">>,
     https80     |-> <<"https", ":", "/", "/", "example", ".", "com", ":", "80", "/", "a">>,
     userinfo    |-> <<"http", ":", "/", "/", "a", ":", "b", "@", "example", ".", "com", ":", "80", "/", "a">>,
     quoted      |-> <<" ", "\"", "javascript", ":", "x", "\"", " ">>,
     api_path    |-> <<"/", "api", "/", "x">>]

AdmitInputs ==
    Blacklisted \cup {S_home, S_page, U_api, U_port, U_relative_api, C_foreign,
                      C_page, C_relative, C_script} \cup Range(Raw)

AdmitBases == {<<>>, S_home, S_page}

AdmitFilters ==
    [domain : {<<>>, S_home}, include_subdomains : BOOLEAN,
     exclude_patterns : {{}, {P_exclude}}, include_patterns : {{}, {P_include}}]

NoAdmitCall ==
    [url |-> <<>>, base_url |-> <<>>, filter |-> FilterFor(<<>>, {}),
     normalized |-> <<>>, admitted |-> FALSE, subdomains |-> {}, done |-> FALSE,
     direct |-> FALSE, extracted |-> {},
     categorized |-> FALSE, categories |-> <<>>,
     collected |-> FALSE, collect_urls |-> <<>>,
     strategies |-> [raises |-> "none", result |-> {}, done |-> FALSE,
                     found_by |-> "none"]]

\* normalized is normalize(url, base_url); admitted is filter of it, direct
\* is filter of url, extracted is what an extraction of the one candidate url
\* with base_url returns.
AdmitResult(call, normalized) ==
    [call EXCEPT !.done = TRUE,
                 !.normalized = normalized,
                 !.admitted = filter(call.filter, normalized),
                 !.direct = filter(call.filter, call.url),
                 !.extracted = emitted(call.filter, {call.url}, call.base_url)]

Admit ==
    /\ ~admit_call.done
    /\ admit_call' = AdmitResult(admit_call, normalize(admit_call.url, admit_call.base_url))
    /\ UNCHANGED <<config_vars, loop_vars, visited_urls, extracted_cache, thr, requests,
                   returned, extracted_from, extract_call>>

\* A call of categorize_urls on the list of the one string.
Categorize ==
    /\ ~admit_call.categorized
    /\ admit_call' = [admit_call EXCEPT
                         !.categorized = TRUE,
                         !.categories = categorize_urls(admit_call.filter, <<admit_call.url>>)]
    /\ UNCHANGED <<config_vars, loop_vars, visited_urls, extracted_cache, thr, requests,
                   returned, extracted_from, extract_call>>

\* A call of extract_from_urls by a SubdomainExtractor for the domain of
\* the filter, crawler.py lines 220-224, on a list that starts with the
\* string.
Collect ==
    /\ ~admit_call.collected
    /\ admit_call.filter.domain # <<>>
    /\ \E rest \in {<<>>, <<U_api, Raw.upper_api>>} :
          admit_call' = [admit_call EXCEPT
                            !.collected = TRUE,
                            !.collect_urls = <<admit_call.url>> \o rest,
                            !.subdomains = extract_from_urls(admit_call.filter.domain,
                                                             <<admit_call.url>> \o rest)]
    /\ UNCHANGED <<config_vars, loop_vars, visited_urls, extracted_cache, thr, requests,
                   returned, extracted_from, extract_call>>

\* A call of extract_from_html on a fresh extractor with a content in which
\* the strategy found_by finds the string and the others find nothing, and
\* in which the strategy raises, if any, hits a fault.
ExtractHtmlRaising ==
    /\ ~admit_call.strategies.done
    /\ \E found_by \in {"regex", "soup", "javascript"},
          raises \in {"none", "regex", "soup", "javascript"} :
         \E urls \in urls_gathered(IF found_by = "regex" THEN {admit_call.url} ELSE {},
                                   IF found_by = "soup" THEN {admit_call.url} ELSE {},
                                   IF found_by = "javascript" THEN {admit_call.url} ELSE {},
                                   raises) :
           admit_call' = [admit_call EXCEPT !.strategies =
               [raises |-> raises,
                result |-> emitted(admit_call.filter,
                                   urls \cup favicon(admit_call.base_url),
                                   admit_call.base_url),
                done |-> TRUE, found_by |-> found_by]]
    /\ UNCHANGED <<config_vars, loop_vars, visited_urls, extracted_cache, thr, requests,
                   returned, extracted_from, extract_call>>

(***************************************************************************)
(* Specifications.                                                         *)
(***************************************************************************)
\* WebCrawler.__init__, lines 70-71, and URLExtractor.__init__, lines 30-31
Fresh ==
    /\ visited_urls = {}
    /\ extracted_cache = {}
    /\ processed = 0
    /\ all_urls = {}
    /\ current = [url |-> <<>>, depth |-> 0]
    /\ thr = [t \in Threads |-> IdleFrame]
    /\ requests = EmptyBag
    /\ failed_tasks = {}
    /\ results = <<>>
    /\ returned = EmptyBag
    /\ extracted_from = {}
    /\ extract_call = NoExtractCall

\* main.py, lines 195-206 and 247-252: the filter and the extractor are built
\* for the start URL, here given without a path; crawler.py, lines 181-186.
Init ==
    /\ start_url = S_home
    /\ max_depth \in 1..MaxDepth
    /\ max_pages \in 1..MaxPages
    /\ extract_js \in BOOLEAN
    /\ url_filter \in {FilterFor(start_url, e) : e \in {{}, {P_exclude}}}
    /\ queue = <<[url |-> start_url, depth |-> 0]>>
    /\ loop_pc = "loop"
    /\ admit_call = NoAdmitCall
    /\ Fresh

Next ==
    \/ DeepDequeue
    \/ Fetch(Main)
    \/ Response(Main)
    \/ DeepCollect
    \/ DeepFinish

Spec == Init /\ [][Next]_vars

\* Each fetch returns, and the loop goes on when it can.
FairSpec == Spec /\ WF_vars(Next)

\* crawl_deep called MaxCrawls times in a row.
SpecDeepAgain == Init /\ [][Next \/ DeepAgain]_vars

\* crawl_deep on a site that names scripts relative to its pages.
SpecRelativeScript ==
    Init /\ [][\/ DeepDequeue
               \/ Fetch(Main)
               \/ ResponseRelativeScript(Main)
               \/ DeepCollect
               \/ DeepFinish]_vars

\* crawl_page for the seed of a crawl, on a site with scripts.
InitCrawlPage ==
    Init /\ max_depth = 1 /\ max_pages = 1 /\ url_filter = FilterFor(start_url, {})

SpecCrawlPage ==
    InitCrawlPage /\ [][DeepDequeue \/ Fetch(Main) \/ ResponseWithScripts(Main)]_vars

\* crawl_batch(urls, extract_js) on a crawler whose extractor filters for
\* S_home; lines 243-258.
BatchLists == UNION {[1..n -> BatchInputs] : n \in 1..MaxBatch}

InitBatch ==
    /\ start_url = S_home
    /\ max_depth = 1
    /\ max_pages = 1
    /\ extract_js \in BOOLEAN
    /\ url_filter = FilterFor(S_home, {})
    /\ queue \in {Tasks(urls, 0) : urls \in BatchLists}
    /\ loop_pc = "batch"
    /\ admit_call = NoAdmitCall
    /\ Fresh

NextBatch ==
    \/ \E t \in Workers : BatchStart(t)
    \/ \E t \in Workers : Fetch(t)
    \/ \E t \in Workers : Response(t)
    \/ \E t \in Workers : BatchCollect(t)
    \/ BatchFinish

SpecBatch == InitBatch /\ [][NextBatch]_vars

\* crawl_batch on a list of MaxBatch URLs, without the JS follow-on, with
\* workers that can hit a fault.
InitBatchFault == InitBatch /\ Len(queue) = MaxBatch /\ ~extract_js

SpecBatchFault == InitBatchFault /\ [][NextBatch \/ \E t \in Workers : Fault(t)]_vars

\* crawl_batch on a list of MaxBatch URLs, without the JS follow-on.
SpecBatchPages == InitBatchFault /\ [][NextBatch]_vars

\* crawl_batch with the JS follow-on on FixedSite, for the lists of its two
\* URLs that begin with the home page.
InitBatchFixed ==
    /\ start_url = S_home
    /\ max_depth = 1
    /\ max_pages = 1
    /\ extract_js = TRUE
    /\ url_filter = FilterFor(S_home, {})
    /\ queue \in {Tasks(urls, 0) :
                    urls \in {l \in UNION {[1..n -> DOMAIN FixedSite] : n \in 1..MaxBatch} :
                                l[1] = S_home}}
    /\ loop_pc = "batch"
    /\ admit_call = NoAdmitCall
    /\ Fresh

SpecBatchFixed ==
    InitBatchFixed /\ [][\/ \E t \in Workers : BatchStart(t)
                         \/ \E t \in Workers : Fetch(t)
                         \/ \E t \in Workers : ResponseFixed(t)
                         \/ \E t \in Workers : BatchCollect(t)
                         \/ BatchFinish]_vars

\* crawl_batch on lists that hold a page of a subdomain.
InitBatchSubdomain ==
    /\ start_url = S_home
    /\ max_depth = 1
    /\ max_pages = 1
    /\ extract_js \in BOOLEAN
    /\ url_filter = FilterFor(S_home, {})
    /\ queue \in {Tasks(urls, 0) : urls \in UNION {[1..n -> {S_home, U_api}] : n \in 1..MaxBatch}}
    /\ loop_pc = "batch"
    /\ admit_call = NoAdmitCall
    /\ Fresh

SpecBatchSubdomain == InitBatchSubdomain /\ [][NextBatch]_vars

\* One URLExtractor, built for a start URL as in main.py, lines 195-206.
InitExtract ==
    /\ start_url \in Seeds
    /\ max_depth = 1
    /\ max_pages = 1
    /\ extract_js = FALSE
    /\ url_filter \in {FilterFor(start_url, e) : e \in {{}, {P_exclude}}}
    /\ queue = <<>>
    /\ loop_pc = "done"
    /\ admit_call = NoAdmitCall
    /\ Fresh

NextExtract == ExtractHtml \/ ExtractJs

SpecExtract == InitExtract /\ [][NextExtract]_vars

\* One call of normalize and of filter.
InitFilter ==
    /\ start_url = S_home
    /\ max_depth = 1
    /\ max_pages = 1
    /\ extract_js = FALSE
    /\ url_filter = FilterFor(S_home, {})
    /\ queue = <<>>
    /\ loop_pc = "done"
    /\ admit_call \in {[NoAdmitCall EXCEPT !.url = u, !.base_url = b, !.filter = f] :
                          u \in AdmitInputs, b \in AdmitBases, f \in AdmitFilters}
    /\ Fresh

NextFilter == Admit \/ Categorize \/ Collect

SpecFilter == InitFilter /\ [][NextFilter]_vars

\* One call of extract_from_html in which a strategy may hit a fault.
SpecStrategies == InitFilter /\ [][ExtractHtmlRaising]_vars

(***************************************************************************)
(* Properties.                                                             *)
(***************************************************************************)
\* The number of requests issued for the page of a task ("page") or for a
\* script of the JS follow-on ("js").
RequestsAt(at) ==
    BagCardinality([q \in {x \in BagToSet(requests) : x[2] = at} |-> requests[q]])

\* The number of requests issued for URLs with the normalized form n.
RequestsFor(n) ==
    BagCardinality([q \in {x \in BagToSet(requests) : NormTable[x[1]][<<>>] = n}
                      |-> requests[q]])

\* The host of a netloc: without userinfo and port, in lower case.
HostOf(netloc) ==
    Lower(Before(IF "@" \in Range(netloc) THEN After(netloc, "@") ELSE netloc, ":"))

\* C1: in a deep crawl no queued task has a depth above max_depth, a task
\* of depth 0 is the seed before the first dequeue, and whenever the queue
\* grows, the task being processed has a depth below max_depth and the new
\* tasks are one level deeper than it.
C1_DepthBound ==
    /\ [](\A k \in DOMAIN queue :
            /\ queue[k].depth <= max_depth
            /\ queue[k].depth = 0 =>
                 queue = <<[url |-> start_url, depth |-> 0]>> /\ processed = 0)
    /\ [][Len(queue') > Len(queue) =>
            /\ current.depth < max_depth
            /\ \A k \in (Len(queue) + 1)..Len(queue') :
                 queue'[k].depth = current.depth + 1]_vars

\* C1 witness: a page at depth max_depth has returned URLs that the filter
\* admits, and none of them is enqueued.
C1_Witness ==
    /\ loop_pc = "page"
    /\ thr[Main].pc = "return"
    /\ current.depth = max_depth
    /\ \E k \in DOMAIN thr[Main].page_urls :
         FilterTable[url_filter][thr[Main].page_urls[k]]

\* C2, as stated: at most max_pages distinct URLs are fetched and run
\* through extraction, with extract_js true or false.
C2_DistinctFetchedWithinBudget ==
    Cardinality({e[1] : e \in extracted_from}) <= max_pages

\* C2, amended: at most max_pages tasks are processed, so at most max_pages
\* pages are requested and run through extract_from_html; without the JS
\* follow-on these are the only requests, with it each processed page adds
\* at most JSLimit script requests that the budget does not count.
C2_PageBudget ==
    /\ processed <= max_pages
    /\ RequestsAt("page") <= max_pages
    /\ Cardinality({e \in extracted_from : e[2] = "page"}) <= max_pages
    /\ ~extract_js => RequestsAt("js") = 0
    /\ RequestsAt("js") <= JSLimit * Cardinality({e \in extracted_from : e[2] = "page"})

\* C2 witness: the budget is spent on fetched pages while tasks are left.
C2_Witness ==
    /\ loop_pc = "done"
    /\ queue # <<>>
    /\ processed = max_pages
    /\ max_pages >= 2
    /\ RequestsAt("page") = max_pages

\* C3, as stated: a sequential deep crawl issues at most one request per
\* normalized URL, the seed as the caller gave it included.
C3_FetchOncePerNormalizedUrl ==
    \A r \in BagToSet(requests) : RequestsFor(NormTable[r[1]][<<>>]) <= 1

\* C4, as stated: in batch mode, for each URL at most one worker has passed
\* the visited check without its request having failed, so a URL whose
\* request succeeds is requested once.
C4_AtMostOneRequest ==
    \A t \in Workers :
        thr[t].pc = "request" =>
            /\ thr[t].fetch_url \notin visited_urls
            /\ \A w \in Workers \ {t} :
                 ~(thr[w].pc = "request" /\ thr[w].fetch_url = thr[t].fetch_url)

\* C5: when crawl_page returns for a task whose fetch failed, the step of
\* the loop leaves all_urls and the queue as they are, counts the task and
\* goes back to the loop test; and no later step requests the URL of a
\* failed task.
C5_FailedTaskDropped ==
    [][/\ (loop_pc = "page" /\ thr[Main].pc = "return" /\ thr[Main].failed) =>
            /\ all_urls' = all_urls
            /\ queue' = queue
            /\ processed' = processed + 1
            /\ loop_pc' = "loop"
       /\ \A r \in BagToSet(requests') :
            r[1] \in failed_tasks => CopiesIn(r, requests') = CopiesIn(r, requests)]_vars

\* C5 witness: after a task has failed, another task is being requested.
C5_Witness ==
    /\ failed_tasks # {}
    /\ loop_pc = "page"
    /\ thr[Main].pc = "request"
    /\ thr[Main].at = "page"
    /\ thr[Main].url \notin failed_tasks

\* C6: every deep crawl reaches the end of the loop, and the loop has ended
\* only with an empty queue or with processed at max_pages.
C6_Terminates ==
    /\ <>(loop_pc = "done")
    /\ [](loop_pc = "done" => (queue = <<>> \/ processed >= max_pages))
    /\ [][loop_pc' = "done" /\ loop_pc # "done" =>
            (queue = <<>> \/ processed >= max_pages)]_vars

\* C6 witness: a crawl of several pages has ended with the queue drained
\* and budget left.
C6_Witness ==
    /\ loop_pc = "done"
    /\ queue = <<>>
    /\ processed >= 2
    /\ processed < max_pages

\* C7: over any sequence of extract_from_html and extract_from_js calls on
\* one extractor, every URL has been returned at most once, and a call with
\* the content, base and method of an earlier call returns nothing.
C7_ReturnedOnce ==
    /\ \A u \in BagToSet(returned) : CopiesIn(u, returned) = 1
    /\ extract_call.repeat => extract_call.last.result = <<>>

\* C7 witness: a call that had returned URLs is made again, after other calls.
C7_Witness ==
    /\ extract_call.repeat
    /\ extract_call.watched.result # <<>>
    /\ BagCardinality(returned) > Len(extract_call.watched.result)

\* C8, as stated: every URL of all_urls is admitted by the filter in the
\* form in which it is stored.
C8_ResultSetAdmitted ==
    \A u \in all_urls : FilterTable[url_filter][u]

\* C9: for a string that starts with javascript:, mailto:, tel:, data:,
\* blob: or about: in any letter case, with every base and every filter,
\* normalize returns no URL, filter admits neither what normalize returns
\* nor the string, and an extraction of the string returns nothing.
C9_BlacklistedSchemes ==
    (admit_call.done /\ \E kw \in black_keywords : StartsWith(Lower(admit_call.url), kw)) =>
        /\ admit_call.normalized = <<>>
        /\ ~admit_call.admitted
        /\ ~admit_call.direct
        /\ admit_call.extracted = {}

\* C9 witness: JavaScript:void(0) has been put to a filter for a domain,
\* with a page as the base.
C9_Witness ==
    /\ admit_call.done
    /\ admit_call.url = I_JavaScript
    /\ admit_call.base_url = S_page
    /\ admit_call.filter.domain = S_home

\* C10, as stated: with a domain, subdomains included and no include
\* patterns, a well-formed URL that no blacklist or exclude pattern matches
\* and that has a host is admitted if and only if the host is the base
\* domain or ends with '.' and the base domain.
C10_SubdomainScope ==
    LET f == admit_call.filter
        n == normalize(admit_call.url, f.domain)
        host == HostOf(urlparse(n, <<>>).netloc)
    IN  (/\ admit_call.done
         /\ f.domain # <<>> /\ f.include_subdomains /\ f.include_patterns = {}
         /\ is_valid_url_format(admit_call.url)
         /\ n # <<>>
         /\ ~MatchesBlacklist(n)
         /\ ~\E p \in f.exclude_patterns : Search(p, n)
         /\ host # <<>>) =>
            (admit_call.direct <=>
                (host = base_domain(f) \/ EndsWith(host, <<".">> \o base_domain(f))))

\* C11, as stated: with a domain, subdomains not included and no include
\* patterns, a well-formed URL that no blacklist or exclude pattern matches
\* and that has a host is admitted if and only if the host is the base
\* domain; a proper subdomain and a foreign host are rejected.
C11_SameDomainOnly ==
    LET f == admit_call.filter
        n == normalize(admit_call.url, f.domain)
        host == HostOf(urlparse(n, <<>>).netloc)
    IN  (/\ admit_call.done
         /\ f.domain # <<>> /\ ~f.include_subdomains /\ f.include_patterns = {}
         /\ is_valid_url_format(admit_call.url)
         /\ n # <<>>
         /\ ~MatchesBlacklist(n)
         /\ ~\E p \in f.exclude_patterns : Search(p, n)
         /\ host # <<>>) =>
            (admit_call.direct <=> host = base_domain(f))

\* C12: with include patterns, filter admits a string only if an include
\* pattern matches its normalized form; and with a domain, a well-formed
\* URL whose host is neither the base domain nor (subdomains included) a
\* proper subdomain of it is admitted if and only if an include pattern
\* matches it and no blacklist or exclude pattern does.
C12_IncludePatterns ==
    LET f == admit_call.filter
        n == normalize(admit_call.url, f.domain)
        host == HostOf(urlparse(n, <<>>).netloc)
        matched == \E p \in f.include_patterns : Search(p, n)
    IN  admit_call.done =>
          /\ (f.include_patterns # {} /\ admit_call.direct) => matched
          /\ (/\ f.domain # <<>>
              /\ is_valid_url_format(admit_call.url)
              /\ n # <<>>
              /\ host # <<>>
              /\ host # base_domain(f)
              /\ ~(f.include_subdomains /\ EndsWith(host, <<".">> \o base_domain(f)))) =>
                 (admit_call.direct <=>
                     /\ matched
                     /\ ~MatchesBlacklist(n)
                     /\ ~\E p \in f.exclude_patterns : Search(p, n))

\* C12 witness: https://api.notexample.com/x, on a foreign host, has been
\* admitted by a filter for example.com with the include pattern 'api'.
C12_Witness ==
    /\ admit_call.done
    /\ admit_call.url = Raw.foreign_api
    /\ admit_call.filter.domain = S_home
    /\ admit_call.filter.include_patterns = {P_include}
    /\ admit_call.direct

\* C13, as stated: categorize_urls puts the normalized form of each input
\* URL into exactly one of the six buckets, once, whatever the domain of
\* the filter.
C13_ExactlyOneBucket ==
    LET n == normalize(admit_call.url, admit_call.filter.domain)
        c == admit_call.categories
    IN  admit_call.categorized =>
          /\ Cardinality({b \in DOMAIN c : n \in Range(c[b])}) = 1
          /\ \A b \in DOMAIN c : Len(c[b]) <= 1

\* C14, as stated: with a domain, categorize_urls puts a URL whose host is
\* a proper subdomain of the base domain into 'subdomains' and not into
\* 'external', and every URL it puts into 'external' has a host that is
\* neither the base domain nor a subdomain of it.
C14_SubdomainBucket ==
    LET f == admit_call.filter
        n == normalize(admit_call.url, f.domain)
        host == HostOf(urlparse(n, <<>>).netloc)
        inside == EndsWith(host, <<".">> \o base_domain(f))
        c == admit_call.categories
    IN  (admit_call.categorized /\ f.domain # <<>>) =>
          /\ inside => (n \in Range(c.subdomains) /\ n \notin Range(c.external))
          /\ n \in Range(c.external) => (host # <<>> /\ host # base_domain(f) /\ ~inside)

\* C15, as stated: every host that extract_from_urls returns is in lower
\* case, ends with '.' and the base domain of the target and is not the
\* base domain, and the host of an input URL that is neither the base
\* domain nor a subdomain of it is not returned.
C15_SubdomainsOnly ==
    LET base == get_base_domain(admit_call.filter.domain)
        urls == admit_call.collect_urls
    IN  admit_call.collected =>
          /\ \A h \in admit_call.subdomains :
                EndsWith(h, <<".">> \o base) /\ h # base /\ h = Lower(h)
          /\ \A k \in DOMAIN urls :
                LET host == HostOf(urlparse(urls[k], <<>>).netloc)
                IN  (host # <<>> /\ host # base /\ ~EndsWith(host, <<".">> \o base))
                        => host \notin admit_call.subdomains

\* C16, as stated: whenever normalize(u, b) is a URL, normalizing it again
\* with the base b, and with no base, returns it unchanged.
C16_Idempotent ==
    (admit_call.done /\ admit_call.normalized # <<>>) =>
        /\ normalize(admit_call.normalized, admit_call.base_url) = admit_call.normalized
        /\ normalize(admit_call.normalized, <<>>) = admit_call.normalized

\* C17, as stated: for an absolute URL with a host, with and without a
\* base, normalize returns a URL, the same as for the URL with its scheme
\* and host in lower case, and a path without dot segments is returned in
\* its own letter case.
C17_CaseInsensitive ==
    LET u == admit_call.url
        p == urlparse(u, <<>>)
        folded == urlunparse(Lower(p.scheme), Lower(p.netloc), p.path, p.query, p.fragment)
        dotted == \E k \in DOMAIN Split(p.path, "/") :
                     Split(p.path, "/")[k] \in {<<".">>, <<".", ".">>}
    IN  (/\ admit_call.done
         /\ \E prefix \in AbsolutePrefixes : StartsWith(Lower(u), prefix)
         /\ p.netloc # <<>>) =>
            /\ admit_call.normalized # <<>>
            /\ admit_call.normalized = normalize(folded, admit_call.base_url)
            /\ ~dotted => urlparse(admit_call.normalized, <<>>).path
                              = IF p.path = <<>> THEN <<"/">> ELSE p.path

\* C18, as stated: for an absolute lower-case URL the netloc of the
\* normalized URL is the netloc without its port when the port is 80 and
\* the scheme http, or the port 443 and the scheme https, and the whole
\* netloc otherwise.
C18_DefaultPort ==
    LET u == admit_call.url
        p == urlparse(u, <<>>)
        userinfo == IF "@" \in Range(p.netloc) THEN Before(p.netloc, "@") \o <<"@">> ELSE <<>>
        hostport == IF "@" \in Range(p.netloc) THEN After(p.netloc, "@") ELSE p.netloc
        default == \/ p.scheme = <<"http">> /\ After(hostport, ":") = <<"80">>
                   \/ p.scheme = <<"https">> /\ After(hostport, ":") = <<"443">>
    IN  (/\ admit_call.done
         /\ \E prefix \in AbsolutePrefixes : StartsWith(u, prefix)
         /\ p.netloc # <<>>) =>
            urlparse(admit_call.normalized, <<>>).netloc
                = IF default THEN Lower(userinfo \o Before(hostport, ":")) ELSE Lower(p.netloc)

\* C19, as stated: against the page https://example.com/a/i.html each kind
\* of reference resolves as in RFC 3986; with any base the path of a
\* normalized URL has no '.' and no '..' segment, and a reference with '..'
\* segments, also above the root, is not rejected.
C19_Resolution ==
    LET root == <<"https", ":", "/", "/", "example", ".", "com", "/">>
        api_root == <<"https", ":", "/", "/", "api", ".", "example", ".", "com", "/">>
        standard == {<<C_page, S_page>>,
                     <<C_relative, root \o <<"a", "/", "x", ".", "html">> >>,
                     <<Raw.here, root \o <<"a", "/", "b">> >>,
                     <<Raw.parent, root \o <<"b">> >>,
                     <<Raw.above_root, root \o <<"b">> >>,
                     <<Raw.api_path, root \o <<"api", "/", "x">> >>,
                     <<U_relative_api, U_api>>,
                     <<Raw.host_parent, api_root>>}
        segments == Split(urlparse(admit_call.normalized, <<>>).path, "/")
    IN  admit_call.done =>
          /\ admit_call.base_url = S_page =>
                \A pair \in standard :
                    admit_call.url = pair[1] => admit_call.normalized = pair[2]
          /\ \A k \in DOMAIN segments : segments[k] \notin {<<".">>, <<".", ".">>}
          /\ (/\ admit_call.base_url # <<>>
              /\ admit_call.url \in {Raw.parent, Raw.above_root, Raw.host_parent, Raw.to_root})
                => admit_call.normalized # <<>>

\* C20, as stated: with and without a base, normalize returns no URL for
\* a string that, stripped of white space and of quotes around it, starts
\* with javascript:, mailto:, tel:, data:, blob: or about:, or with '#'.
C20_Rejected ==
    LET stripped == Strip(Strip(Strip(admit_call.url, Whitespace), {"\""}), {"'"})
    IN  (/\ admit_call.done
         /\ \E kw \in black_keywords \cup {<<"#">>} : StartsWith(stripped, kw)) =>
            admit_call.normalized = <<>>

\* C21, as stated: when one of the three strategies of extract_from_html
\* hits a fault, what a strategy that did not fail has found is returned as
\* without the fault, whichever strategy failed.
C21_OtherStrategiesKept ==
    LET c == admit_call.strategies
    IN  (c.done /\ c.raises \notin {"none", c.found_by}) =>
            emitted(admit_call.filter, {admit_call.url}, admit_call.base_url) \subseteq c.result

\* C22: in crawl_batch a worker whose fetch fails or that hits a fault
\* hands back an empty list and changes neither the caller, the list of
\* the URLs still to start nor another worker; what a worker hands back is
\* all in all_urls once it is collected, and counted; all_urls never
\* shrinks; and crawl_batch returns only when every URL of the list has
\* been started, finished and counted.
C22_FaultContained ==
    [][/\ all_urls \subseteq all_urls'
       /\ \A t \in Workers :
            /\ (thr[t].pc \in {"fetch", "request"} /\ thr'[t].pc = "return"
                                                    /\ thr'[t].failed) =>
                  /\ thr'[t].page_urls = <<>>
                  /\ loop_pc' = loop_pc /\ queue' = queue /\ all_urls' = all_urls
                  /\ \A w \in Workers \ {t} : thr'[w] = thr[w]
            /\ (thr[t].pc = "return" /\ thr'[t].pc = "idle") =>
                  /\ Range(thr[t].page_urls) \subseteq all_urls'
                  /\ processed' = processed + 1
                  /\ loop_pc' = "batch"
       /\ (loop_pc = "batch" /\ loop_pc' = "done") =>
            /\ queue = <<>>
            /\ \A t \in Workers : thr[t].pc = "idle"
            /\ processed = MaxBatch
            /\ all_urls' = all_urls]_vars

\* C22 witness: crawl_batch has returned URLs although a worker hit a fault.
C22_Witness ==
    /\ loop_pc = "done"
    /\ failed_tasks # {}
    /\ all_urls # {}
    /\ processed = MaxBatch

(***************************************************************************)
(* What a crawl returns.                                                   *)
(***************************************************************************)
\* C23: the subdomains a crawl returns are those SubdomainExtractor
\* collects from the URLs it returns, in deep and in batch mode alike.
C23_SubdomainsOfResult ==
    \A k \in DOMAIN results :
        results[k].subdomains =
            extract_from_urls(url_filter.domain, [u \in results[k].urls |-> u])

\* C24: a crawl starts from an empty visited set and an empty extractor
\* cache, also when it is the second crawl_deep call on the same crawler:
\* the second call requests the seed again and, when the first call has
\* returned URLs, returns the same URLs.
C24_FreshInvocation ==
    /\ (/\ loop_pc = "loop"
        /\ processed = 0
        /\ queue = <<[url |-> start_url, depth |-> 0]>>)
            => visited_urls = {} /\ extracted_cache = {}
    /\ Len(results) = MaxCrawls
            => /\ CopiesIn(<<start_url, "page">>, requests) = MaxCrawls
               /\ results[1].urls # {} => results[MaxCrawls].urls = results[1].urls

(***************************************************************************)
(* crawl_page and the JS follow-on.  On the site of SpecCrawlPage no URL   *)
(* is fetched twice, so every call of fetch is a request.                  *)
(***************************************************************************)
\* C25: with the JS follow-on, the visit of one page fetches at most
\* JSLimit scripts, each of them a URL found on that page that ends in
\* '.js'; the URLs found in the scripts are in what the visit returns and
\* none of them is fetched.  Without the follow-on the visit issues exactly
\* one fetch.
C25_ScriptFetches ==
    /\ RequestsAt("page") <= 1
    /\ RequestsAt("js") <= JSLimit
    /\ \A r \in BagToSet(requests) :
          r[2] = "js" => /\ IsScript(r[1])
                         /\ r[1] \in PageScripts \cap Range(thr[Main].page_urls)
    /\ thr[Main].pc = "return"
          => /\ RequestsAt("page") = 1
             /\ \A u \in BagToSet(returned) : u \in Range(thr[Main].page_urls)
             /\ ~extract_js => RequestsAt("js") = 0

\* A page of more than JSLimit scripts has been visited, and a script has
\* held a link to a further script.
C25_Witness ==
    /\ thr[Main].pc = "return"
    /\ extract_js
    /\ Len(SelectSeq(thr[Main].page_urls, IsScript)) > JSLimit + 1
    /\ RequestsAt("js") = JSLimit
    /\ S_home \o C_script \in Range(thr[Main].page_urls)

(***************************************************************************)
(* The queue of crawl_deep.                                                *)
(***************************************************************************)
\* C26: the queue of a deep crawl is first in, first out: a task leaves at
\* the head and is the one being processed, new tasks join at the tail, the
\* depth of the task being processed never decreases, the depths along the
\* queue never decrease, and every queued task has the depth of the task
\* being processed or that depth plus one.
C26_Fifo ==
    /\ [](\A k \in DOMAIN queue :
            /\ queue[k].depth \in {current.depth, current.depth + 1}
            /\ \A j \in 1..k : queue[j].depth <= queue[k].depth)
    /\ [][/\ current'.depth >= current.depth
          /\ IF Len(queue') < Len(queue)
             THEN current' = Head(queue) /\ queue' = Tail(queue)
             ELSE current' = current /\ SubSeq(queue', 1, Len(queue)) = queue]_vars

\* The tasks a page has added wait behind a task of the depth of that page.
C26_Witness ==
    /\ loop_pc = "loop"
    /\ processed > 1
    /\ \E j, k \in DOMAIN queue :
         queue[j].depth = current.depth /\ queue[k].depth = current.depth + 1

\* C27: a dequeued task whose URL is visited is dropped and nothing else
\* changes: not the processed count, the URLs found, the visited set, the
\* rest of the queue, and no fetch is made.  Every other dequeued task goes
\* to crawl_page and, when that returns, with or without content, adds
\* exactly one to the processed count; nothing else changes the count.
C27_SkipIsFree ==
    /\ [](loop_pc = "loop" => processed = RequestsAt("page"))
    /\ [][/\ Len(queue') < Len(queue) =>
                IF Head(queue).url \in visited_urls
                THEN /\ queue' = Tail(queue)
                     /\ UNCHANGED <<processed, all_urls, visited_urls, extracted_cache,
                                    loop_pc, thr, requests, failed_tasks>>
                ELSE /\ loop_pc' = "page"
                     /\ thr'[Main].pc = "fetch"
                     /\ thr'[Main].url = Head(queue).url
                     /\ processed' = processed
          /\ processed' # processed =>
                /\ loop_pc = "page" /\ loop_pc' = "loop"
                /\ processed' = processed + 1
          /\ (loop_pc = "page" /\ loop_pc' = "loop") => processed' = processed + 1]_vars

\* The task of a script that the JS follow-on has fetched has been dropped,
\* after a task whose fetch failed has been counted.
C27_Witness ==
    /\ loop_pc = "loop"
    /\ current.url \in visited_urls
    /\ <<current.url, "page">> \notin BagToSet(requests)
    /\ failed_tasks # {}
    /\ processed >= 2

\* C28: every URL that a deep crawl requests from the network, the seed
\* apart, is a URL the filter admits: the pages, which are enqueued after
\* filter(), and the scripts of the JS follow-on.
C28_FetchedAdmitted ==
    \A r \in BagToSet(requests) : r[1] = start_url \/ FilterTable[url_filter][r[1]]

(***************************************************************************)
(* fetch and visited_urls.  Without the JS follow-on every fetch is the    *)
(* fetch of a page, and the frame of crawl_page tells a failed fetch       *)
(* (failed) from one that has returned a body, empty or not.               *)
(***************************************************************************)
\* C29: a URL is in visited_urls exactly when a request for it has had a
\* successful response: every visited URL has been requested, every URL
\* whose body has been extracted is visited, a request that fails leaves
\* visited_urls as it is and one that succeeds adds its URL and nothing
\* else, a fetch of a visited URL returns without a request and without
\* content, and visited_urls and all_urls never lose a URL.
C29_VisitedIffFetched ==
    /\ [](/\ \A u \in visited_urls : \E r \in BagToSet(requests) : r[1] = u
          /\ \A e \in extracted_from : e[1] \in visited_urls)
    /\ [][/\ visited_urls \subseteq visited_urls'
          /\ all_urls \subseteq all_urls'
          /\ visited_urls' # visited_urls => requests' # requests
          /\ \A t \in Threads :
                /\ (thr[t].pc = "request" /\ thr'[t] # thr[t]) =>
                      /\ requests' = requests (+) SetToBag({<<thr[t].fetch_url, thr[t].at>>})
                      /\ visited_urls' = IF thr'[t].failed THEN visited_urls
                                         ELSE visited_urls \cup {thr[t].fetch_url}
                /\ (/\ thr[t].pc = "fetch"
                    /\ thr'[t] # thr[t]
                    /\ thr[t].fetch_url \in visited_urls) =>
                      /\ thr'[t].pc = "return"
                      /\ thr'[t].page_urls = <<>>
                      /\ UNCHANGED <<requests, visited_urls, extracted_from,
                                     extracted_cache>>]_vars

\* Two pages have been processed on one request: the fetch of the second
\* has found its URL visited.
C29_Witness ==
    /\ loop_pc = "done"
    /\ processed = MaxBatch
    /\ BagCardinality(requests) = 1
    /\ visited_urls # {}

(***************************************************************************)
(* crawl_batch and the order of its workers.                               *)
(***************************************************************************)
\* What crawl_batch returns on FixedSite when the workers run one after the
\* other in the order of the list: the home page is extracted on an empty
\* cache and its follow-on fetches the script; a later task of the script
\* or of the home page finds its URL visited.
InListOrder ==
    LET page == CHOOSE l \in extract_from_html(url_filter, {}, FixedSite[S_home], S_home) : TRUE
        script == CHOOSE l \in extract_from_js(url_filter, Range(page),
                                               FixedSite[U_api_script], U_api_script) : TRUE
    IN  Range(page) \cup Range(script)

\* C30: with fixed contents, crawl_batch returns the same URLs in every
\* interleaving of its workers: the URLs it returns when they run one after
\* the other.
C30_OrderIndependent ==
    \A k \in DOMAIN results : results[k].urls = InListOrder

=============================================================================
